---- MODULE Spec2Model ----
(***************************************************************************)
(* Model of lib/build.js: the static-site build pipeline.                  *)
(*                                                                         *)
(* The build is one async function.  Every `await` is a suspension point;  *)
(* an action of the model is the code that runs from the resumption of one *)
(* await (or the firing of one callback) up to the next suspension.        *)
(* Promise continuations are microtasks: they run before the next I/O      *)
(* callback, so the settling of Promise.all and the continuation of        *)
(* build() belong to the action of the callback that settles it.           *)
(*                                                                         *)
(* Strings are modelled as sequences of tokens (a "/" token and name       *)
(* tokens), so that stripping the leading slash and taking a dirname are   *)
(* computed, not assumed.                                                  *)
(***************************************************************************)
EXTENDS Integers, Sequences, FiniteSets, TLC

VARIABLES
  pc,             \* position of build(): the await it is suspended at
  pages,          \* options.siteData.pages, a sequence of [path |-> ...]
  stats,          \* result of compile(): [children |-> <<client, server>>]
  dirs,           \* directories that exist under outDir (<<>> is outDir)
  manifestFiles,  \* files present in <outDir>/manifest
  assetFiles,     \* emitted bundle files: asset name -> content
  htmlFiles,      \* files written by renderPage: file name -> content
  serverBundle,   \* line 33, loaded or not
  clientManifest, \* line 34, loaded or not
  renderer,       \* line 45, constructed or not
  wk,             \* locals of workaroundEmptyStyleChunk
  op,             \* position of each renderPage call (index N+1: synthetic 404)
  calls,          \* history: per renderPage call, how often renderToString was called
  phases,         \* history: the phases build() has started, in order
  cb,             \* history: what the bundler passed to the webpack callback
  errorLog,       \* the renderPage calls whose failure lines 125-126 have logged
  compileLog,     \* what compile has done: errors printed (line 80), rejections
  headTag,        \* renderHeadTag: the head tag given (t)
  headOut         \* renderHeadTag: the string returned, <<>> before the call

vars == <<pc, pages, stats, dirs, manifestFiles, assetFiles, htmlFiles,
          serverBundle, clientManifest, renderer, wk, op, calls, phases, cb, errorLog,
          compileLog, headTag, headOut>>

----------------------------------------------------------------------------
(* Bounds *)

MaxPages == 2

MaxAssets == 2

MaxErrors == 2

MaxAttrs == 2

----------------------------------------------------------------------------
(* Page paths and file names, as token sequences *)

Slash == "/"

PathRoot == <<Slash>>

Path404 == <<Slash, "404.html">>

PathIndex == <<Slash, "index.html">>

PathManifestA == <<Slash, "manifest", Slash, "a.html">>

PagePaths == {PathRoot, Path404, PathIndex, PathManifestA}

ManifestDir == <<"manifest">>

\* all sequences over S of length at most n
SeqsUpTo(S, n) == UNION {[1..k -> S] : k \in 0..n}

Range(s) == {s[i] : i \in DOMAIN s}

NoDup(s) == \A i, j \in DOMAIN s : i # j => s[i] # s[j]

\* the page lists prepare() may return: distinct paths, each starting with "/"
PageLists ==
  {[i \in DOMAIN s |-> [path |-> s[i]]] : s \in {t \in SeqsUpTo(PagePaths, MaxPages) : NoDup(t)}}

\* line 129 without the special case of the root page
FilenameNoIndex(pagePath) ==
  IF pagePath # <<>> /\ Head(pagePath) = Slash THEN Tail(pagePath) ELSE pagePath

\* the file name with the leading slash left in place
FilenameKeepSlash(pagePath) ==
  IF pagePath = PathRoot THEN <<"index.html">> ELSE pagePath

\* line 129: pagePath === '/' ? 'index.html' : pagePath.replace(/^\//, '')
Filename(pagePath) ==
  IF pagePath = PathRoot THEN <<"index.html">>
  ELSE IF pagePath # <<>> /\ Head(pagePath) = Slash THEN Tail(pagePath)
  ELSE pagePath

\* path.dirname of a file name relative to outDir (<<>> is outDir itself)
Dirname(file) ==
  IF Len(file) <= 1 THEN <<>> ELSE SubSeq(file, 1, Len(file) - 2)

\* the directories mkdirp(dir) makes sure exist: dir and all its ancestors
MkdirpSet(dir) ==
  {<<>>} \cup {SubSeq(dir, 1, k) : k \in {j \in 1..Len(dir) : dir[j] # Slash}}

\* whether a file or directory lies inside directory dir
IsUnder(p, dir) ==
  /\ Len(p) >= Len(dir)
  /\ SubSeq(p, 1, Len(dir)) = dir

\* what renderer.renderToString resolves with for a page
Html(pagePath) == <<"html", pagePath>>

\* what a write that failed half-way leaves in the file
Partial(pagePath) == <<"partial", pagePath>>

----------------------------------------------------------------------------
(* Emitted assets.  A name is <stem>.<hash>.<ext>; the hash is a sequence  *)
(* of characters so that \w{8} is a test on it.                            *)

WordChars ==
  {"a", "b", "c", "d", "e", "f", "g", "h", "0", "1", "2", "3", "4", "5", "6", "7", "8", "_"}

StyleName ==
  [stem |-> "styles", hash |-> <<"a", "b", "1", "2", "c", "d", "3", "4">>, ext |-> "js"]

AppName ==
  [stem |-> "app", hash |-> <<"e", "f", "5", "6", "g", "h", "7", "8">>, ext |-> "js"]

\* a second file matching the app pattern (the pattern has no ^ anchor)
App2Name ==
  [stem |-> "app", hash |-> <<"0", "0", "0", "0", "0", "0", "0", "1">>, ext |-> "js"]

\* files of the server target
SrvStyleName ==
  [stem |-> "styles", hash |-> <<"5", "5", "5", "5", "5", "5", "5", "5">>, ext |-> "js"]

SrvAppName ==
  [stem |-> "app", hash |-> <<"6", "6", "6", "6", "6", "6", "6", "6">>, ext |-> "js"]

ClientNames == {StyleName, AppName, App2Name}

Asset(n) == [name |-> n]

\* the value of Array.prototype.find when nothing matches
UndefinedAsset == [name |-> [stem |-> "undefined", hash |-> <<>>, ext |-> ""]]

\* lines 147-149: /styles\.\w{8}\.js$/.test(a.name)
IsStyleChunk(a) ==
  /\ a.name.stem = "styles"
  /\ Len(a.name.hash) = 8
  /\ \A i \in 1..Len(a.name.hash) : a.name.hash[i] \in WordChars
  /\ a.name.ext = "js"

\* lines 155-157: /app\.\w{8}\.js$/.test(a.name)
IsAppChunk(a) ==
  /\ a.name.stem = "app"
  /\ Len(a.name.hash) = 8
  /\ \A i \in 1..Len(a.name.hash) : a.name.hash[i] \in WordChars
  /\ a.name.ext = "js"

\* Array.prototype.find: the first of the elements at the matching indices
\* hits, or undefined when nothing matches
FirstOf(assets, hits) ==
  IF hits = {} THEN UndefinedAsset
  ELSE assets[CHOOSE i \in hits : \A j \in hits : i <= j]

\* lines 147-149: assets.find(a => /styles\.\w{8}\.js$/.test(a.name))
FindStyleChunk(assets) ==
  FirstOf(assets, {i \in DOMAIN assets : IsStyleChunk(assets[i])})

\* lines 155-157: assets.find(a => /app\.\w{8}\.js$/.test(a.name))
FindAppChunk(assets) ==
  FirstOf(assets, {i \in DOMAIN assets : IsAppChunk(assets[i])})

\* the asset lists the bundler may report for the client target
ClientAssetLists ==
  {[i \in DOMAIN s |-> Asset(s[i])] : s \in {t \in SeqsUpTo(ClientNames, MaxAssets) : NoDup(t)}}

\* ... and for the server target
ServerAssetLists == {<<>>, <<Asset(SrvStyleName), Asset(SrvAppName)>>}

\* the content the bundler writes into an emitted file
Emitted(n) == <<n>>

NoStats == [children |-> <<>>]

NoWk == [styleChunk |-> UndefinedAsset, styleChunkContent |-> <<>>,
         appChunk |-> UndefinedAsset, appChunkContent |-> <<>>]

ManifestNames == {"server.json", "client.json"}

\* a function with one more (or one overwritten) entry
Put(f, k, v) == [x \in DOMAIN f \cup {k} |-> IF x = k THEN v ELSE f[x]]

\* a removal that removes nothing
WithoutNothing(f, gone) == f

\* a function without the entries of the keys in gone
Without(f, gone) == [x \in DOMAIN f \ gone |-> f[x]]

EmptyFiles == [x \in {} |-> <<>>]

----------------------------------------------------------------------------
(* Decisions of the code, one operator each *)

\* compile with the stats.hasErrors() branch missing
CompileRejectsOnErrOnly(err, hasErrors) == err

\* lines 75-84: the webpack callback rejects on err, and on stats.hasErrors()
CompileRejects(err, hasErrors) == err \/ hasErrors

\* line 62 with the default 404 page never generated
Needs404Never(ps) == FALSE

\* line 62 with the default 404 page generated whatever the pages are
Needs404Always(ps) == TRUE

\* line 62: !options.siteData.pages.some(p => p.path === '/404.html')
Needs404(ps) == ~(\E i \in DOMAIN ps : ps[i].path = Path404)

\* line 59 with only the first page rendered before the build waits
LaunchSetFirstOnly(ps) == IF Len(ps) = 0 THEN {} ELSE {1}

\* line 59: pages.map(renderPage) calls renderPage for every page, at once
LaunchSet(ps) == 1..Len(ps)

\* renderPage with a catch block that logs and rethrows
OnRenderErrorRethrow == "rejected"

\* lines 124-128: the catch block logs and returns, the call resolves
OnRenderError == "skipped"

\* lines 147 and 155 reading the asset list of the second configuration
StitchAssetsServer(st) == st.children[2].assets

\* lines 147 and 155: stats.children[0].assets, the asset list of the first
\* configuration passed to compile (sequences are 1-based here)
StitchAssets(st) == st.children[1].assets

\* line 160 with the operands swapped
StitchedAppFirst(styleChunkContent, appChunkContent) == appChunkContent \o styleChunkContent

\* line 160: styleChunkContent + appChunkContent
Stitched(styleChunkContent, appChunkContent) == styleChunkContent \o appChunkContent

\* a renderPage call that stays pending when its render has failed
ResolvedDoneOnly(s) == s = "done"

\* a renderPage call that has resolved (written its file, or skipped the page)
Resolved(s) == s \in {"done", "skipped"}

\* line 59 with Promise.race in place of Promise.all
PagesResolvedAny(o, n) == n = 0 \/ \E i \in 1..n : Resolved(o[i])

\* line 59: Promise.all resolves when every call of the map has resolved
PagesResolved(o, n) == \A i \in 1..n : Resolved(o[i])

\* line 59 with Promise.allSettled in place of Promise.all
PagesRejectedNever(o, n) == FALSE

\* line 59: Promise.all rejects as soon as one call of the map rejects
PagesRejected(o, n) == \E i \in 1..n : o[i] = "rejected"

\* the page a renderPage call is about: call N+1 is line 63's synthetic page
PagePath(i) == IF i <= Len(pages) THEN pages[i].path ELSE Path404

N == Len(pages)

----------------------------------------------------------------------------
(* compile, lines 72-88: what the webpack callback prints and settles *)

\* the error lists stats.toJson().errors may hold; stats.hasErrors() is
\* true exactly when the list is not empty
ErrorLists == {[i \in 1..k |-> i] : k \in 0..MaxErrors}

Event(ev, arg) == [ev |-> ev, arg |-> arg]

\* line 80, for each error of the list in order
PrintAll(errors) == [i \in 1..Len(errors) |-> Event("console.error", <<errors[i]>>)]

\* compile rejecting before it prints the errors
CompileEventsRejectFirst(err, errors) ==
  IF err THEN <<Event("reject", <<"err">>)>>
  ELSE IF errors # <<>>
       THEN <<Event("reject", <<"Failed to compile with errors.">>)>> \o PrintAll(errors)
       ELSE <<Event("resolve", <<>>)>>

\* lines 75-85: reject(err); or print every error, then reject; or resolve
CompileEvents(err, errors) ==
  IF err THEN <<Event("reject", <<"err">>)>>
  ELSE IF errors # <<>>
       THEN PrintAll(errors) \o <<Event("reject", <<"Failed to compile with errors.">>)>>
       ELSE <<Event("resolve", <<>>)>>

----------------------------------------------------------------------------
(* renderHeadTag, lines 90-107.  Strings are sequences of tokens.          *)

TagNames == {"meta", "link", "script", "br"}

AttrNames == {"charset", "src", "href"}

AttrValues == {"utf-8", "x"}

\* an attribute mapping, in the iteration order of its keys; keys are unique
AttrMaps ==
  {m \in SeqsUpTo([name : AttrNames, value : AttrValues], MaxAttrs) :
     \A i, j \in DOMAIN m : i # j => m[i].name # m[j].name}

\* the head tags of the site configuration: attrs and innerHTML may be missing
HeadTags ==
  {[tag |-> g, hasAttrs |-> TRUE, attrs |-> m, hasInner |-> h.has, innerHTML |-> h.text] :
     g \in TagNames, m \in AttrMaps,
     h \in {[has |-> FALSE, text |-> ""], [has |-> TRUE, text |-> ""], [has |-> TRUE, text |-> "1"]}}
  \cup
  {[tag |-> g, hasAttrs |-> FALSE, attrs |-> <<>>, hasInner |-> h.has, innerHTML |-> h.text] :
     g \in TagNames,
     h \in {[has |-> FALSE, text |-> ""], [has |-> TRUE, text |-> ""], [has |-> TRUE, text |-> "1"]}}

NoHeadTag == [tag |-> "", hasAttrs |-> FALSE, attrs |-> <<>>, hasInner |-> FALSE, innerHTML |-> ""]

\* Array.prototype.join
RECURSIVE Join(_, _)
Join(parts, sep) ==
  IF Len(parts) = 0 THEN <<>>
  ELSE IF Len(parts) = 1 THEN parts[1]
  ELSE parts[1] \o sep \o Join(Tail(parts), sep)

\* needsClosing with the html void elements not closed
needsClosingVoid(tag) == ~(tag = "link" \/ tag = "meta" \/ tag = "br")

\* lines 96-98
needsClosing(tag) == ~(tag = "link" \/ tag = "meta")

\* lines 100-107; attrs = {} when the argument is missing
renderAttrs(hasAttrs, attrs) ==
  LET keys == IF hasAttrs THEN attrs ELSE <<>>
  IN IF Len(keys) > 0
     THEN <<" ">> \o Join([i \in 1..Len(keys) |->
                             <<keys[i].name, "=\"", keys[i].value, "\"">>], <<" ">>)
     ELSE <<>>

\* lines 90-94
renderHeadTag(t) ==
  <<"<", t.tag>> \o renderAttrs(t.hasAttrs, t.attrs) \o <<">">>
  \o (IF t.hasInner /\ t.innerHTML # "" THEN <<t.innerHTML>> ELSE <<>>)
  \o (IF needsClosing(t.tag) THEN <<"</", t.tag, ">">> ELSE <<>>)

----------------------------------------------------------------------------
(* Initial state: build() has been called, prepare() is pending.  The      *)
(* output directory may hold the result of an earlier build.               *)

StaleDirs == {<<>>, ManifestDir}

StaleHtml == Put(EmptyFiles, <<"index.html">>, Html(PathRoot))

BuildInit ==
  /\ pc = "prepare"
  /\ pages = <<>>
  /\ stats = NoStats
  /\ \E stale \in BOOLEAN :
       /\ dirs = IF stale THEN StaleDirs ELSE {}
       /\ manifestFiles = IF stale THEN ManifestNames ELSE {}
       /\ assetFiles = IF stale THEN Put(EmptyFiles, AppName, Emitted(AppName)) ELSE EmptyFiles
       /\ htmlFiles = IF stale THEN StaleHtml ELSE EmptyFiles
  /\ serverBundle = FALSE
  /\ clientManifest = FALSE
  /\ renderer = FALSE
  /\ wk = NoWk
  /\ op = <<"idle">>
  /\ calls = <<0>>
  /\ phases = <<>>
  /\ cb = "pending"
  /\ errorLog = {}
  /\ compileLog = <<>>

Init ==
  /\ BuildInit
  /\ headTag = NoHeadTag
  /\ headOut = <<>>

----------------------------------------------------------------------------
(* build(), up to the construction of the renderer *)

\* line 19: prepare() resolves with the site model; line 25 calls rimraf
PrepareResolve ==
  /\ pc = "prepare"
  /\ \E ps \in PageLists :
       /\ pages' = ps
       /\ op' = [i \in 1..(Len(ps) + 1) |-> "idle"]
       /\ calls' = [i \in 1..(Len(ps) + 1) |-> 0]
  /\ pc' = "clean"
  /\ phases' = Append(phases, "clean")
  /\ UNCHANGED <<compileLog, headTag, headOut, stats, dirs, manifestFiles, assetFiles, htmlFiles, serverBundle,
                 clientManifest, renderer, wk, cb,
                 errorLog>>

\* line 19: prepare() rejects
PrepareReject ==
  /\ pc = "prepare"
  /\ pc' = "failed"
  /\ UNCHANGED <<compileLog, headTag, headOut, pages, stats, dirs, manifestFiles, assetFiles, htmlFiles, serverBundle,
                 clientManifest, renderer, wk, op, calls, phases, cb,
                 errorLog>>

\* line 25: rimraf(outDir) resolves; lines 27-31 build the configs and call compile
CleanDone ==
  /\ pc = "clean"
  /\ dirs' = {}
  /\ manifestFiles' = {}
  /\ assetFiles' = EmptyFiles
  /\ htmlFiles' = EmptyFiles
  /\ pc' = "compile"
  /\ phases' = Append(phases, "compile")
  /\ UNCHANGED <<compileLog, headTag, headOut, pages, stats, serverBundle, clientManifest, renderer, wk, op, calls, cb,
                 errorLog>>

\* what the bundler leaves on disk when it ran: the assets of both targets
EmittedFiles(client, server) ==
  [n \in {a.name : a \in Range(client) \cup Range(server)} |-> Emitted(n)]

\* lines 72-88: the webpack callback fires.  config is [client, server], and
\* stats.children is in the order of the configs
WebpackCallback ==
  /\ pc = "compile"
  /\ \E err \in BOOLEAN, errors \in ErrorLists, client \in ClientAssetLists,
        server \in ServerAssetLists, mf \in SUBSET ManifestNames :
     LET hasErrors == errors # <<>>
     IN
       /\ cb' = IF err THEN "err" ELSE IF hasErrors THEN "errors" ELSE "stats"
       /\ compileLog' = <<Event("callback", IF err THEN <<>> ELSE errors)>>
                         \o CompileEvents(err, errors)
       /\ IF err
          THEN UNCHANGED <<dirs, manifestFiles, assetFiles>>
          ELSE /\ dirs' = {<<>>} \cup (IF mf = {} THEN {} ELSE {ManifestDir})
               /\ manifestFiles' = mf
               /\ assetFiles' = EmittedFiles(client, server)
       /\ IF CompileRejects(err, hasErrors)
          THEN /\ pc' = "failed"
               /\ UNCHANGED stats
          ELSE /\ pc' = "loadManifests"
               /\ stats' = [children |-> <<[assets |-> client], [assets |-> server]>>]
  /\ UNCHANGED <<headTag, headOut, pages, htmlFiles, serverBundle, clientManifest, renderer, wk, op, calls,
                 phases,
                 errorLog>>

\* a load that goes on when only server.json could be required
BothLoadedServerOnly(mf) == "server.json" \in mf

\* lines 33-34: neither require has thrown
BothLoaded(mf) == ManifestNames \subseteq mf

\* lines 33-37: both manifests are required (a missing file throws), then
\* rimraf is called on the manifest directory
LoadManifests ==
  /\ pc = "loadManifests"
  /\ serverBundle' = ("server.json" \in manifestFiles)
  /\ clientManifest' = (ManifestNames \subseteq manifestFiles)
  /\ phases' = IF BothLoaded(manifestFiles)
                THEN phases \o <<"load", "rmManifest">>
                ELSE Append(phases, "load")
  /\ pc' = IF BothLoaded(manifestFiles) THEN "rmManifest" ELSE "failed"
  /\ UNCHANGED <<compileLog, headTag, headOut, pages, stats, dirs, manifestFiles, assetFiles, htmlFiles, renderer, wk,
                 op, calls, cb,
                 errorLog>>

\* a rimraf that removes the files and leaves the directories
RimrafDirsKeep(ds, target) == ds

\* rimraf(target): target and everything inside it is gone
RimrafDirs(ds, target) == {d \in ds : ~IsUnder(d, target)}

\* line 37: rimraf(manifest) resolves; line 42 calls workaroundEmptyStyleChunk,
\* which looks up the style chunk (lines 147-150) and calls readFile (line 151).
\* styleChunk.name throws when find returned undefined.
RimrafManifestDone ==
  /\ pc = "rmManifest"
  /\ dirs' = RimrafDirs(dirs, ManifestDir)
  /\ manifestFiles' = {}
  /\ htmlFiles' = Without(htmlFiles, {f \in DOMAIN htmlFiles : IsUnder(f, ManifestDir)})
  /\ phases' = Append(phases, "stitch")
  /\ LET styleChunk == FindStyleChunk(StitchAssets(stats))
     IN /\ wk' = [wk EXCEPT !.styleChunk = styleChunk]
        /\ pc' = IF styleChunk = UndefinedAsset THEN "failed" ELSE "readStyle"
  /\ UNCHANGED <<compileLog, headTag, headOut, pages, stats, assetFiles, serverBundle, clientManifest, renderer, op,
                 calls, cb, errorLog>>

\* line 151: readFile(styleChunkPath) settles; line 152 calls rimraf
ReadStyleDone ==
  /\ pc = "readStyle"
  /\ IF wk.styleChunk.name \in DOMAIN assetFiles
     THEN /\ wk' = [wk EXCEPT !.styleChunkContent = assetFiles[wk.styleChunk.name]]
          /\ pc' = "rmStyle"
     ELSE /\ pc' = "failed"
          /\ UNCHANGED wk
  /\ UNCHANGED <<compileLog, headTag, headOut, pages, stats, dirs, manifestFiles, assetFiles, htmlFiles, serverBundle,
                 clientManifest, renderer, op, calls, phases, cb,
                 errorLog>>

\* line 152: rimraf(styleChunkPath) resolves; lines 155-159 look up the app
\* chunk and call readFile.  appChunk.name throws when find returned undefined.
RimrafStyleDone ==
  /\ pc = "rmStyle"
  /\ assetFiles' = Without(assetFiles, {wk.styleChunk.name})
  /\ LET appChunk == FindAppChunk(StitchAssets(stats))
     IN /\ wk' = [wk EXCEPT !.appChunk = appChunk]
        /\ pc' = IF appChunk = UndefinedAsset THEN "failed" ELSE "readApp"
  /\ UNCHANGED <<compileLog, headTag, headOut, pages, stats, dirs, manifestFiles, htmlFiles, serverBundle,
                 clientManifest, renderer, op, calls, phases, cb,
                 errorLog>>

\* line 159: readFile(appChunkPath) settles; line 160 calls writeFile
ReadAppDone ==
  /\ pc = "readApp"
  /\ IF wk.appChunk.name \in DOMAIN assetFiles
     THEN /\ wk' = [wk EXCEPT !.appChunkContent = assetFiles[wk.appChunk.name]]
          /\ pc' = "writeApp"
     ELSE /\ pc' = "failed"
          /\ UNCHANGED wk
  /\ UNCHANGED <<compileLog, headTag, headOut, pages, stats, dirs, manifestFiles, assetFiles, htmlFiles, serverBundle,
                 clientManifest, renderer, op, calls, phases, cb,
                 errorLog>>

\* build() going from the stitcher straight to the rendering of the pages
AfterStitchRender == "launch"

\* where build() resumes when line 42's await resolves: line 45
AfterStitch == "construct"

\* line 160: writeFile(appChunkPath, ...) resolves, and with it line 42's await
WriteAppDone ==
  /\ pc = "writeApp"
  /\ assetFiles' = Put(assetFiles, wk.appChunk.name,
                       Stitched(wk.styleChunkContent, wk.appChunkContent))
  /\ pc' = AfterStitch
  /\ UNCHANGED <<compileLog, headTag, headOut, pages, stats, dirs, manifestFiles, htmlFiles, serverBundle,
                 clientManifest, renderer, wk, op, calls, phases, cb,
                 errorLog>>

\* lines 45-56: createBundleRenderer, and the head tags
ConstructRenderer ==
  /\ pc = "construct"
  /\ renderer' = TRUE
  /\ pc' = "launch"
  /\ phases' = Append(phases, "construct")
  /\ UNCHANGED <<compileLog, headTag, headOut, pages, stats, dirs, manifestFiles, assetFiles, htmlFiles, serverBundle,
                 clientManifest, wk, op, calls, cb,
                 errorLog>>

----------------------------------------------------------------------------
(* Page rendering: lines 58-68 and renderPage, lines 109-133 *)

\* Where build() stands once the renderPage calls are in the states o.  The
\* continuations of a settled promise run before any other callback:
\*   line 59: Promise.all over the calls of the map rejects with the first
\*            rejection, and resolves when all of them have resolved;
\*   lines 62-63: then the synthetic 404 page is rendered, if needed, and awaited;
\*   line 68: then success is reported.
SettleAwait(p, o, c) ==
  IF p = "awaitPages"
  THEN IF PagesRejected(o, N) THEN [pc |-> "failed", op |-> o, calls |-> c]
       ELSE IF PagesResolved(o, N)
            THEN IF Needs404(pages)
                 THEN [pc |-> "await404",
                       op |-> [o EXCEPT ![N + 1] = "rendering"],
                       calls |-> [c EXCEPT ![N + 1] = @ + 1]]
                 ELSE [pc |-> "success", op |-> o, calls |-> c]
            ELSE [pc |-> p, op |-> o, calls |-> c]
  ELSE IF p = "await404"
  THEN IF o[N + 1] = "rejected" THEN [pc |-> "failed", op |-> o, calls |-> c]
       ELSE IF Resolved(o[N + 1]) THEN [pc |-> "success", op |-> o, calls |-> c]
       ELSE [pc |-> p, op |-> o, calls |-> c]
  ELSE [pc |-> p, op |-> o, calls |-> c]

\* a build that renders the synthetic 404 page in a finally block: after a
\* failure too, once the calls of the map have all settled
SettleFinally404(p, o, c) ==
  IF /\ p = "failed"
     /\ Len(o) = N + 1
     /\ o[N + 1] = "idle"
     /\ \A k \in 1..N : o[k] \in {"done", "skipped", "rejected"}
  THEN [pc |-> p,
        op |-> [o EXCEPT ![N + 1] = "rendering"],
        calls |-> [c EXCEPT ![N + 1] = @ + 1]]
  ELSE SettleAwait(p, o, c)

\* lines 59-68 have no catch and no finally: build() moves only at its awaits
Settle(p, o, c) == SettleAwait(p, o, c)

\* line 59: renderPage runs for every page up to its first await (the call
\* of renderToString, line 123), then build() awaits Promise.all
LaunchPages ==
  /\ pc = "launch"
  /\ phases' = Append(phases, "render")
  /\ LET o == [i \in DOMAIN op |-> IF i \in LaunchSet(pages) THEN "rendering" ELSE op[i]]
         c == [i \in DOMAIN calls |-> IF i \in LaunchSet(pages) THEN calls[i] + 1 ELSE calls[i]]
         r == Settle("awaitPages", o, c)
     IN /\ pc' = r.pc
        /\ op' = r.op
        /\ calls' = r.calls
  /\ UNCHANGED <<compileLog, headTag, headOut, pages, stats, dirs, manifestFiles, assetFiles, htmlFiles, serverBundle,
                 clientManifest, renderer, wk, cb,
                 errorLog>>

\* renderPage call i moves to state s; build() continues if that settles its await
OpStep(i, s) ==
  LET r == Settle(pc, [op EXCEPT ![i] = s], calls)
  IN /\ pc' = r.pc
     /\ op' = r.op
     /\ calls' = r.calls

\* line 123: renderToString resolves; lines 129-131 compute the file name and call mkdirp
RenderResolve(i) ==
  /\ op[i] = "rendering"
  /\ OpStep(i, "mkdirp")
  /\ UNCHANGED <<compileLog, headTag, headOut, pages, stats, dirs, manifestFiles, assetFiles, htmlFiles, serverBundle,
                 clientManifest, renderer, wk, phases, cb,
                 errorLog>>

\* line 123: renderToString rejects; lines 124-128
RenderReject(i) ==
  /\ op[i] = "rendering"
  /\ errorLog' = errorLog \cup {i}
  /\ OpStep(i, OnRenderError)
  /\ UNCHANGED <<compileLog, headTag, headOut, pages, stats, dirs, manifestFiles, assetFiles, htmlFiles, serverBundle,
                 clientManifest, renderer, wk, phases, cb>>

\* line 131: mkdirp resolves; line 132 calls writeFile
MkdirpDone(i) ==
  /\ op[i] = "mkdirp"
  /\ dirs' = dirs \cup MkdirpSet(Dirname(Filename(PagePath(i))))
  /\ OpStep(i, "writing")
  /\ UNCHANGED <<compileLog, headTag, headOut, pages, stats, manifestFiles, assetFiles, htmlFiles, serverBundle,
                 clientManifest, renderer, wk, phases, cb,
                 errorLog>>

\* line 131: mkdirp rejects, and so does the renderPage call
MkdirpFail(i) ==
  /\ op[i] = "mkdirp"
  /\ OpStep(i, "rejected")
  /\ UNCHANGED <<compileLog, headTag, headOut, pages, stats, dirs, manifestFiles, assetFiles, htmlFiles, serverBundle,
                 clientManifest, renderer, wk, phases, cb,
                 errorLog>>

\* line 132: writeFile resolves, and so does the renderPage call
WriteDone(i) ==
  /\ op[i] = "writing"
  /\ htmlFiles' = Put(htmlFiles, Filename(PagePath(i)), Html(PagePath(i)))
  /\ OpStep(i, "done")
  /\ UNCHANGED <<compileLog, headTag, headOut, pages, stats, dirs, manifestFiles, assetFiles, serverBundle,
                 clientManifest, renderer, wk, phases, cb,
                 errorLog>>

\* line 132: writeFile rejects, before or after it created the file
WriteFail(i) ==
  /\ op[i] = "writing"
  /\ \E created \in BOOLEAN :
       htmlFiles' = IF created
                    THEN Put(htmlFiles, Filename(PagePath(i)), Partial(PagePath(i)))
                    ELSE htmlFiles
  /\ OpStep(i, "rejected")
  /\ UNCHANGED <<compileLog, headTag, headOut, pages, stats, dirs, manifestFiles, assetFiles, serverBundle,
                 clientManifest, renderer, wk, phases, cb,
                 errorLog>>

Next ==
  \/ PrepareResolve
  \/ PrepareReject
  \/ CleanDone
  \/ WebpackCallback
  \/ LoadManifests
  \/ RimrafManifestDone
  \/ ReadStyleDone
  \/ RimrafStyleDone
  \/ ReadAppDone
  \/ WriteAppDone
  \/ ConstructRenderer
  \/ LaunchPages
  \/ \E i \in DOMAIN op : RenderResolve(i)
  \/ \E i \in DOMAIN op : RenderReject(i)
  \/ \E i \in DOMAIN op : MkdirpDone(i)
  \/ \E i \in DOMAIN op : MkdirpFail(i)
  \/ \E i \in DOMAIN op : WriteDone(i)
  \/ \E i \in DOMAIN op : WriteFail(i)

Spec == Init /\ [][Next]_vars

\* every pending external operation (prepare, rimraf, the bundler, readFile,
\* writeFile, mkdirp, renderToString) settles at some time
FairSpec == Spec /\ WF_vars(Next)

----------------------------------------------------------------------------
(* renderHeadTag on its own: any head tag, rendered once *)

HeadInit ==
  /\ BuildInit
  /\ headTag \in HeadTags
  /\ headOut = <<>>

\* line 55: renderHeadTag is applied to a head tag
RenderHead ==
  /\ headOut = <<>>
  /\ headOut' = renderHeadTag(headTag)
  /\ UNCHANGED <<pc, pages, stats, dirs, manifestFiles, assetFiles, htmlFiles,
                 serverBundle, clientManifest, renderer, wk, op, calls, phases, cb,
                 errorLog, compileLog, headTag>>

HeadNext == RenderHead

HeadSpec == HeadInit /\ [][HeadNext]_vars

----------------------------------------------------------------------------
(* Vocabulary of the properties *)

\* the renderPage calls made so far
Launched == {i \in DOMAIN op : calls[i] > 0}

\* everything some renderPage call for page path p may have put in a file
WritesOf(p) == {Html(p), Partial(p)}

\* the build has returned to its caller, or thrown
BuildOver == pc \in {"success", "failed"}

\* the site model has no page at /404.html
NoPageAt404 == \A i \in 1..N : pages[i].path # Path404

----------------------------------------------------------------------------
(* C1 *)

\* C1: render failures are isolated per page.  A renderPage call whose
\* renderToString failed (it is in the error log) never puts anything, not
\* even a partial file, on disk; it never fails the build (a build that
\* fails after the pages were launched holds a call rejected by mkdirp or
\* writeFile, never one from the error log); and when the build reports
\* success every call whose render succeeded has written its file, which
\* holds the complete html of a page of that file name.
C1_RenderFailuresIsolated ==
  /\ \A i \in errorLog :
       /\ \A f \in DOMAIN htmlFiles : htmlFiles[f] \notin WritesOf(PagePath(i))
       /\ op[i] # "rejected"
  /\ (pc = "failed" /\ Launched # {}) =>
       \E i \in Launched \ errorLog : op[i] = "rejected"
  /\ pc = "success" =>
       \A i \in DOMAIN op \ errorLog :
         calls[i] > 0 =>
           /\ op[i] = "done"
           /\ Filename(PagePath(i)) \in DOMAIN htmlFiles
           /\ \E j \in DOMAIN op \ errorLog :
                /\ Filename(PagePath(j)) = Filename(PagePath(i))
                /\ htmlFiles[Filename(PagePath(i))] = Html(PagePath(j))

\* two pages, the render of the first failed and the second was written, and
\* the build reported success
C1_Witness ==
  /\ pc = "success"
  /\ N = 2
  /\ 1 \in errorLog
  /\ op[2] = "done"
  /\ Filename(PagePath(2)) \in DOMAIN htmlFiles

----------------------------------------------------------------------------
(* C2 *)

\* C2: a compile failure is fatal.  Once the webpack callback has reported
\* an invocation error or a stats report with errors, the build has failed
\* and nothing downstream has happened: no phase after compile was started,
\* no manifest was loaded, the manifest directory is as the bundler left it,
\* the stitcher has not run, no renderer exists, no render was started, no
\* page file exists and success is not reported.
C2_CompileFailureFatal ==
  cb \in {"err", "errors"} =>
    /\ pc = "failed"
    /\ phases = <<"clean", "compile">>
    /\ ~serverBundle
    /\ ~clientManifest
    /\ (manifestFiles # {} => ManifestDir \in dirs)
    /\ wk = NoWk
    /\ ~renderer
    /\ Launched = {}
    /\ \A i \in DOMAIN op : op[i] = "idle"
    /\ htmlFiles = EmptyFiles

\* the stats report had errors, and the bundler had written the manifests
C2_Witness ==
  /\ cb = "errors"
  /\ pc = "failed"
  /\ manifestFiles = ManifestNames

----------------------------------------------------------------------------
(* C3 *)

\* the file names of the renderPage calls in I are pairwise distinct
DistinctFiles(I) ==
  \A i, j \in I : i # j => Filename(PagePath(i)) # Filename(PagePath(j))

\* C3 as stated: a successful build of N pages, none at /404.html, has
\* emitted exactly N+1 html files, 404.html among them.
C3_Original ==
  (pc = "success" /\ NoPageAt404) =>
    /\ Cardinality(DOMAIN htmlFiles) = N + 1
    /\ <<"404.html">> \in DOMAIN htmlFiles

\* C3, amended: a successful build of N pages, none at /404.html, has
\* emitted exactly the files of the N+1 renderPage calls (the pages and the
\* synthetic 404 page) whose render did not fail: at most N+1 html files,
\* and exactly N+1, 404.html among them, when no render failed and no two
\* pages map to the same file name.
C3_EmittedFiles ==
  (pc = "success" /\ NoPageAt404) =>
    /\ DOMAIN htmlFiles = {Filename(PagePath(i)) : i \in (1..(N + 1)) \ errorLog}
    /\ Cardinality(DOMAIN htmlFiles) <= N + 1
    /\ (errorLog = {} /\ DistinctFiles(1..(N + 1))) =>
         /\ Cardinality(DOMAIN htmlFiles) = N + 1
         /\ <<"404.html">> \in DOMAIN htmlFiles

\* two pages and the synthetic 404 page were all rendered: three files
C3_Witness ==
  /\ pc = "success"
  /\ NoPageAt404
  /\ N = 2
  /\ errorLog = {}
  /\ Cardinality(DOMAIN htmlFiles) = 3
  /\ <<"404.html">> \in DOMAIN htmlFiles

----------------------------------------------------------------------------
(* C4 *)

\* C4 as stated: in a successful build the synthetic page is rendered
\* exactly once when no page has path /404.html and never when one has; in
\* the latter case exactly N files are emitted for N pages.
C4_Original ==
  /\ calls[N + 1] <= 1
  /\ (pc = "success" /\ NoPageAt404) => calls[N + 1] = 1
  /\ ~NoPageAt404 => calls[N + 1] = 0
  /\ (pc = "success" /\ ~NoPageAt404) => Cardinality(DOMAIN htmlFiles) = N

\* C4, amended: the synthetic page is rendered at most once, exactly once
\* in a successful build whose page list has no page at /404.html, and
\* never when some page has that path; in the latter case a successful
\* build has emitted exactly the files of the pages whose render did not
\* fail: at most N files, and exactly N when no render failed and no two
\* pages map to the same file name.
C4_Synthetic404 ==
  /\ calls[N + 1] <= 1
  /\ (pc = "success" /\ NoPageAt404) => calls[N + 1] = 1
  /\ ~NoPageAt404 => (calls[N + 1] = 0 /\ op[N + 1] = "idle")
  /\ (pc = "success" /\ ~NoPageAt404) =>
       /\ DOMAIN htmlFiles = {Filename(PagePath(i)) : i \in (1..N) \ errorLog}
       /\ Cardinality(DOMAIN htmlFiles) <= N
       /\ (errorLog = {} /\ DistinctFiles(1..N)) => Cardinality(DOMAIN htmlFiles) = N

\* a site with its own /404.html and one more page: two files, no synthetic page
C4_Witness ==
  /\ pc = "success"
  /\ ~NoPageAt404
  /\ N = 2
  /\ errorLog = {}
  /\ calls[N + 1] = 0
  /\ Cardinality(DOMAIN htmlFiles) = 2

----------------------------------------------------------------------------
(* C5 *)

\* C5 as stated: after a successful build of a site without a page at
\* /404.html, <outDir>/404.html is present.
C5_Original ==
  (pc = "success" /\ NoPageAt404) => <<"404.html">> \in DOMAIN htmlFiles

\* C5, amended: after a successful build of a site without a page at
\* /404.html, <outDir>/404.html is present, holding the html of the
\* synthetic page, if and only if the render of the synthetic page did not
\* fail; a failed render of it is logged and leaves no 404.html.
C5_404Present ==
  (pc = "success" /\ NoPageAt404) =>
    /\ (N + 1 \notin errorLog) =>
         /\ <<"404.html">> \in DOMAIN htmlFiles
         /\ htmlFiles[<<"404.html">>] = Html(Path404)
    /\ (N + 1 \in errorLog) => <<"404.html">> \notin DOMAIN htmlFiles

\* the synthetic page was rendered and written next to a page of the site
C5_Witness ==
  /\ pc = "success"
  /\ NoPageAt404
  /\ N >= 1
  /\ op[N + 1] = "done"
  /\ <<"404.html">> \in DOMAIN htmlFiles

----------------------------------------------------------------------------
(* C6 *)

\* workaroundEmptyStyleChunk has returned
StitchFinished == pc = "construct" \/ "construct" \in Range(phases)

\* the names of the files the compile report lists, for both targets
Listed == {a.name : a \in UNION {Range(stats.children[k].assets) : k \in DOMAIN stats.children}}

\* C6: once the stitcher has finished, the report lists a style chunk s and
\* an app chunk a such that the file of a holds the emitted content of s
\* followed by the emitted content of a, the file of s is gone, every other
\* emitted file is as the bundler wrote it, and the directory holds exactly
\* one asset file fewer than the bundler emitted.
C6_Stitched ==
  StitchFinished =>
    \E s \in Listed, a \in Listed :
      /\ IsStyleChunk(Asset(s))
      /\ IsAppChunk(Asset(a))
      /\ s \notin DOMAIN assetFiles
      /\ a \in DOMAIN assetFiles
      /\ assetFiles[a] = Emitted(s) \o Emitted(a)
      /\ DOMAIN assetFiles = Listed \ {s}
      /\ \A n \in Listed \ {s, a} : assetFiles[n] = Emitted(n)
      /\ Cardinality(DOMAIN assetFiles) = Cardinality(Listed) - 1

\* the stitcher finished with other emitted files on disk
C6_Witness ==
  /\ pc = "construct"
  /\ StyleName \notin DOMAIN assetFiles
  /\ AppName \in DOMAIN assetFiles
  /\ assetFiles[AppName] = <<StyleName, AppName>>
  /\ Cardinality(DOMAIN assetFiles) = 3

----------------------------------------------------------------------------
(* C7 *)

\* C7 as stated: in every successful build the manifest directory does not
\* exist in the final output tree, whatever the page paths are.
C7_Original == pc = "success" => ManifestDir \notin dirs

\* C7, amended: in every successful build the manifest files are gone, and
\* <outDir>/manifest exists in the final output tree exactly when a page
\* whose path lies under /manifest/ was rendered: mkdirp re-creates the
\* directory for that page's file.
C7_ManifestDirGone ==
  pc = "success" =>
    /\ manifestFiles = {}
    /\ ManifestDir \in dirs <=>
         \E i \in Launched \ errorLog : IsUnder(Filename(PagePath(i)), ManifestDir)

\* a successful build whose output tree has no manifest directory
C7_Witness ==
  /\ pc = "success"
  /\ N = 2
  /\ "rmManifest" \in Range(phases)
  /\ ManifestDir \notin dirs
  /\ <<>> \in dirs

----------------------------------------------------------------------------
(* C8 *)

\* C8 as stated: when the build waits for the page renders, the render of
\* every page, the synthetic 404 page included when it is needed, has been
\* started.
C8_Original ==
  pc = "awaitPages" =>
    \A i \in 1..(N + 1) : (i <= N \/ NoPageAt404) => calls[i] > 0

\* C8, amended: the renders of all N pages of the site model are launched
\* together, each started before the build waits for any of them; the
\* synthetic 404 page is not among them: its render is started only after
\* every one of the N renderPage calls has resolved.
C8_LaunchedTogether ==
  /\ (pc = "awaitPages" \/ "render" \in Range(phases)) =>
       \A i \in 1..N : calls[i] = 1
  /\ calls[N + 1] > 0 => \A i \in 1..N : Resolved(op[i])

\* the build waits, the first page is still rendering, the second one is
\* already being written, the synthetic page has not been started
C8_Witness ==
  /\ pc = "awaitPages"
  /\ N = 2
  /\ NoPageAt404
  /\ op[1] = "rendering"
  /\ op[2] = "writing"
  /\ calls[N + 1] = 0

----------------------------------------------------------------------------
(* C9 *)

\* C9 as stated: the build has neither returned nor failed while a
\* launched renderPage call is unresolved.
C9_Original ==
  BuildOver => \A i \in Launched : op[i] \in {"done", "skipped", "rejected"}

\* C9, amended: the build does not report success until every page's
\* render-or-skip, including its file write, has resolved.  (It fails to
\* its caller as soon as one call rejects, with others still in flight.)
C9_WaitForAll ==
  pc = "success" =>
    /\ \A i \in 1..N : calls[i] = 1
    /\ \A i \in Launched : Resolved(op[i])

\* success after two pages were written
C9_Witness ==
  /\ pc = "success"
  /\ N = 2
  /\ op[1] = "done"
  /\ op[2] = "done"

----------------------------------------------------------------------------
(* C10 *)

\* C10: no two renderPage calls of a build write to the same output file.
C10_NoWriteConflicts ==
  \A i, j \in DOMAIN op :
    (i # j /\ op[i] \in {"writing", "done"} /\ op[j] \in {"writing", "done"}) =>
      Filename(PagePath(i)) # Filename(PagePath(j))

----------------------------------------------------------------------------
(* C11 *)

\* the file a page is to be written to: index.html for the root page, the
\* path without its first character otherwise
ExpectedFile(p) == IF Len(p) = 1 THEN <<"index.html">> ELSE SubSeq(p, 2, Len(p))

\* the directories on the way from outDir to a file
Ancestors(f) == {SubSeq(f, 1, k) : k \in {j \in 0..(Len(f) - 1) : j = 0 \/ f[j + 1] = Slash}}

\* C11: output path mapping.  A page whose write has finished was written
\* to the file index.html if its path is "/", and otherwise to the file
\* named by its path without the one leading "/", relative to the output
\* directory (the file exists and holds what a page of that file name wrote);
\* when the write is issued every directory on the way to that file exists;
\* and after the clean-up no html file exists under any other name.
C11_OutputPath ==
  /\ \A i \in DOMAIN op :
       /\ op[i] = "done" =>
            /\ ExpectedFile(PagePath(i)) \in DOMAIN htmlFiles
            /\ \E j \in DOMAIN op :
                 /\ ExpectedFile(PagePath(j)) = ExpectedFile(PagePath(i))
                 /\ htmlFiles[ExpectedFile(PagePath(i))] \in WritesOf(PagePath(j))
       /\ op[i] \in {"writing", "done"} =>
            Ancestors(ExpectedFile(PagePath(i))) \subseteq dirs
  /\ "compile" \in Range(phases) =>
       DOMAIN htmlFiles \subseteq {ExpectedFile(PagePath(i)) : i \in Launched}

\* the root page and a nested page have been written
C11_Witness ==
  /\ N = 2
  /\ PagePath(1) = PathRoot
  /\ PagePath(2) = PathManifestA
  /\ op[1] = "done"
  /\ op[2] = "done"
  /\ htmlFiles[<<"index.html">>] = Html(PathRoot)
  /\ htmlFiles[<<"manifest", Slash, "a.html">>] = Html(PathManifestA)
  /\ <<"manifest">> \in dirs

----------------------------------------------------------------------------
(* C12 *)

\* C12: a filesystem error is fatal.  Whenever mkdirp or writeFile has
\* rejected for a page whose render succeeded, the build has failed: it is
\* not waiting any more and it never reports success.
C12_FsErrorFatal ==
  \A i \in DOMAIN op : (op[i] = "rejected" /\ i \notin errorLog) => pc = "failed"

\* the write of the first page was rejected while the second was in flight
C12_Witness ==
  /\ N = 2
  /\ op[1] = "rejected"
  /\ 1 \notin errorLog
  /\ op[2] = "mkdirp"
  /\ pc = "failed"

----------------------------------------------------------------------------
(* C13 *)

\* the asset list of the client target (the first configuration of line 31)
ClientAssets == IF stats = NoStats THEN <<>> ELSE stats.children[1].assets

\* the asset list of the server target (the second configuration of line 31)
ServerAssets == IF stats = NoStats THEN <<>> ELSE stats.children[2].assets

\* C13 as stated: the chunks the stitcher has picked are assets of the
\* server target.
C13_Original ==
  /\ wk.styleChunk # UndefinedAsset => wk.styleChunk \in Range(ServerAssets)
  /\ wk.appChunk # UndefinedAsset => wk.appChunk \in Range(ServerAssets)

\* C13, amended: the stitcher takes both the style chunk and the app chunk
\* from the asset list of the client target, the first of the per-target
\* results, compile being called with the configurations [client, server];
\* the server target's list is not consulted: when the client list has no
\* style chunk the stitcher fails, whatever the server list holds.
C13_ClientTarget ==
  /\ wk.styleChunk # UndefinedAsset =>
       /\ wk.styleChunk \in Range(ClientAssets)
       /\ wk.styleChunk \notin Range(ServerAssets)
  /\ wk.appChunk # UndefinedAsset =>
       /\ wk.appChunk \in Range(ClientAssets)
       /\ wk.appChunk \notin Range(ServerAssets)
  /\ ("stitch" \in Range(phases) /\ ~(\E a \in Range(ClientAssets) : IsStyleChunk(a))) =>
       /\ wk.styleChunk = UndefinedAsset
       /\ pc = "failed"

\* both targets list a style and an app chunk, and the stitcher has merged
\* the client's
C13_Witness ==
  /\ pc = "construct"
  /\ ServerAssets = <<Asset(SrvStyleName), Asset(SrvAppName)>>
  /\ wk.styleChunk = Asset(StyleName)
  /\ wk.appChunk = Asset(AppName)
  /\ SrvStyleName \in DOMAIN assetFiles

----------------------------------------------------------------------------
\* C14: renderHeadTag returns '<' and the tag name; then, for a mapping that
\* is present and not empty, a space and the name="value" pairs in the
\* mapping's order, separated by single spaces, and nothing for an empty or
\* missing mapping; then '>'; then the innerHTML when there is one; then
\* '</', the tag name and '>' exactly when the tag is neither link nor meta.
\* {tag:'meta', attrs:{charset:'utf-8'}} gives <meta charset="utf-8"> and
\* {tag:'script', attrs:{}, innerHTML:'1'} gives <script>1</script>.
C14_HeadTagFormat ==
  headOut # <<>> =>
    LET t == headTag
        o == headOut
        k == IF t.hasAttrs THEN Len(t.attrs) ELSE 0
        h == IF t.hasInner /\ t.innerHTML # "" THEN 1 ELSE 0
        closed == t.tag \notin {"link", "meta"}
        g == 3 + 5 * k
    IN /\ Len(o) = g + h + (IF closed THEN 3 ELSE 0)
       /\ o[1] = "<"
       /\ o[2] = t.tag
       /\ \A i \in 1..k :
            /\ o[5 * i - 2] = " "
            /\ o[5 * i - 1] = t.attrs[i].name
            /\ o[5 * i] = "=\""
            /\ o[5 * i + 1] = t.attrs[i].value
            /\ o[5 * i + 2] = "\""
       /\ o[g] = ">"
       /\ h = 1 => o[g + 1] = t.innerHTML
       /\ closed => SubSeq(o, g + h + 1, g + h + 3) = <<"</", t.tag, ">">>
       /\ (t = [tag |-> "meta", hasAttrs |-> TRUE,
                attrs |-> <<[name |-> "charset", value |-> "utf-8"]>>,
                hasInner |-> FALSE, innerHTML |-> ""])
            => o = <<"<", "meta", " ", "charset", "=\"", "utf-8", "\"", ">">>
       /\ (t = [tag |-> "script", hasAttrs |-> TRUE, attrs |-> <<>>,
                hasInner |-> TRUE, innerHTML |-> "1"])
            => o = <<"<", "script", ">", "1", "</", "script", ">">>

\* a br tag with two attributes and no innerHTML has been rendered
C14_Witness ==
  /\ headTag.tag = "br"
  /\ Len(headTag.attrs) = 2
  /\ ~headTag.hasInner
  /\ Len(headOut) = 16

----------------------------------------------------------------------------
(* C15 *)

\* the phases of a build, in the order of lines 25-59
PhaseOrder == <<"clean", "compile", "load", "rmManifest", "stitch", "construct", "render">>

Started(ph) == ph \in Range(phases)

\* C15: the phases start in the order clean, compile, load manifests, delete
\* the manifest directory, stitch, construct the renderer, render pages, each
\* at most once and none skipped, and each one only when the one before has
\* completed: compile starts on a cleaned output directory, the manifests are
\* loaded from a completed compile, the manifest directory is deleted with
\* both manifests loaded, the stitcher starts with the manifest directory
\* gone (it stays gone until pages are rendered), the renderer is
\* constructed with the stitcher's work done; and no
\* renderPage call is started and no page file written unless the renderer
\* has been constructed.
C15_PhaseOrder ==
  /\ phases = SubSeq(PhaseOrder, 1, Len(phases))
  /\ Len(phases) <= Len(PhaseOrder)
  /\ Started("clean") => Len(op) = N + 1
  /\ pc = "compile" => dirs = {} /\ assetFiles = EmptyFiles /\ htmlFiles = EmptyFiles
  /\ cb # "pending" => Started("compile")
  /\ Started("load") => cb = "stats" /\ stats # NoStats
  /\ (serverBundle \/ clientManifest) => Started("load")
  /\ Started("rmManifest") => serverBundle /\ clientManifest
  /\ Started("stitch") => manifestFiles = {}
  /\ (Started("stitch") /\ Launched = {}) => ManifestDir \notin dirs
  /\ wk # NoWk => Started("stitch")
  /\ Started("construct") =>
       /\ renderer
       /\ wk.styleChunk # UndefinedAsset /\ wk.appChunk # UndefinedAsset
       /\ wk.styleChunk.name \notin DOMAIN assetFiles
       /\ wk.appChunk.name \in DOMAIN assetFiles
  /\ renderer => Started("construct")
  /\ Started("render") => renderer
  /\ Launched # {} => renderer /\ Started("render")
  /\ (Started("compile") /\ htmlFiles # EmptyFiles) => renderer /\ Launched # {}

\* a page file has been written at the end of a build that went through
\* all seven phases
C15_Witness ==
  /\ pc = "success"
  /\ phases = PhaseOrder
  /\ htmlFiles # EmptyFiles

----------------------------------------------------------------------------
(* C16 *)

\* the error list the bundler's report held when the callback fired
ReportedErrors == compileLog[1].arg

Rejections == {i \in DOMAIN compileLog : compileLog[i].ev = "reject"}

\* C16: when the compile report has errors, every error of the report's
\* list is printed, once and in the list's order, before the failure is
\* raised; the failure is raised exactly once, as the last thing compile
\* does, nothing is resolved, and the build fails.
C16_ErrorsBeforeFailure ==
  cb = "errors" =>
    LET k == Len(ReportedErrors)
    IN /\ k >= 1
       /\ Len(compileLog) = k + 2
       /\ \A i \in 1..k :
            compileLog[i + 1] = Event("console.error", <<ReportedErrors[i]>>)
       /\ Rejections = {k + 2}
       /\ \A i \in DOMAIN compileLog : compileLog[i].ev # "resolve"
       /\ pc = "failed"

\* a report with two errors has been handled
C16_Witness ==
  /\ cb = "errors"
  /\ Len(ReportedErrors) = 2
  /\ Len(compileLog) = 4
  /\ pc = "failed"

----------------------------------------------------------------------------
(* C17 *)

\* the stitcher has failed for want of an app chunk: the report lists a
\* style chunk, which the stitcher has picked, and no app chunk
FailedForAppChunk ==
  /\ pc = "failed"
  /\ Started("stitch")
  /\ wk.styleChunk # UndefinedAsset
  /\ FindAppChunk(ClientAssets) = UndefinedAsset

\* C17 as stated: the stitcher reads or deletes a file only when the report
\* lists both chunks, and when it fails for want of an app chunk the style
\* chunk file is still on disk and every file is as the bundler emitted it.
C17_Original ==
  /\ pc \in {"readStyle", "rmStyle"} => FindAppChunk(ClientAssets) # UndefinedAsset
  /\ FailedForAppChunk =>
       /\ wk.styleChunk.name \in DOMAIN assetFiles
       /\ assetFiles = EmittedFiles(ClientAssets, ServerAssets)

\* C17, amended: the stitcher looks up the app chunk only after it has read
\* and deleted the style chunk file.  While that file is read and deleted no
\* app chunk has been looked up; when the report lists a style chunk and no
\* app chunk the build fails with the style chunk file read and deleted,
\* every other emitted file as the bundler wrote it, no renderer and no page
\* rendered; when the report lists no style chunk the build fails with every
\* emitted file as the bundler wrote it.
C17_StyleDeletedFirst ==
  /\ pc \in {"readStyle", "rmStyle"} =>
       /\ wk.appChunk = UndefinedAsset
       /\ assetFiles = EmittedFiles(ClientAssets, ServerAssets)
  /\ FailedForAppChunk =>
       /\ wk.styleChunk.name \notin DOMAIN assetFiles
       /\ wk.styleChunkContent = Emitted(wk.styleChunk.name)
       /\ \A n \in DOMAIN EmittedFiles(ClientAssets, ServerAssets) \ {wk.styleChunk.name} :
            n \in DOMAIN assetFiles /\ assetFiles[n] = Emitted(n)
       /\ DOMAIN assetFiles \subseteq DOMAIN EmittedFiles(ClientAssets, ServerAssets)
       /\ wk.appChunk = UndefinedAsset
       /\ ~renderer
       /\ Launched = {}
  /\ (pc = "failed" /\ Started("stitch") /\ FindStyleChunk(ClientAssets) = UndefinedAsset) =>
       /\ assetFiles = EmittedFiles(ClientAssets, ServerAssets)
       /\ wk = NoWk

\* the report listed a style chunk and no app chunk, and the build has failed
C17_Witness ==
  /\ FailedForAppChunk
  /\ wk.styleChunk = Asset(StyleName)
  /\ StyleName \notin DOMAIN assetFiles

----------------------------------------------------------------------------
(* C18 *)

\* C18: the deletion of the manifest directory is started only with both
\* manifests loaded.  When the load has been tried and a manifest is not
\* loaded, a manifest file is absent, the build has failed, the manifest
\* directory and the manifest files the bundler wrote are still there (the
\* deletion was never started), the stitcher has done nothing, there is no
\* renderer, no renderPage call was made and no page file exists.
C18_ManifestsAllOrNothing ==
  /\ Started("rmManifest") => serverBundle /\ clientManifest
  /\ (Started("load") /\ ~(serverBundle /\ clientManifest)) =>
       /\ manifestFiles # ManifestNames
       /\ pc = "failed"
       /\ ~Started("rmManifest")
       /\ manifestFiles # {} => ManifestDir \in dirs
       /\ serverBundle = ("server.json" \in manifestFiles)
       /\ ~clientManifest
       /\ ~Started("stitch")
       /\ wk = NoWk
       /\ assetFiles = EmittedFiles(ClientAssets, ServerAssets)
       /\ ~renderer
       /\ Launched = {}
       /\ htmlFiles = EmptyFiles
  /\ (Started("load") /\ manifestFiles = ManifestNames) => Started("rmManifest")

\* the bundler wrote server.json and no client.json, and the build has failed
C18_Witness ==
  /\ pc = "failed"
  /\ Started("load")
  /\ serverBundle
  /\ manifestFiles = {"server.json"}
  /\ ManifestDir \in dirs

----------------------------------------------------------------------------
(* C19 *)

\* the renderPage calls whose renderToString has not settled
Rendering == {i \in DOMAIN op : op[i] = "rendering"}

\* C19 as stated, second half: while a render call has not settled the build
\* has not completed, with success or with failure.
C19_Original == Rendering # {} => ~BuildOver

\* C19, amended: when every external operation settles the build ends,
\* with success or failure.  While a render call has not settled the build
\* has not succeeded (it may have failed, on a fatal error of another page);
\* every other renderPage call can go on meanwhile: its render, its mkdirp
\* and its write can settle whatever the build and the other calls do.
C19_Termination ==
  /\ <>BuildOver
  /\ [](Rendering # {} => pc # "success")
  /\ [](\A j \in DOMAIN op :
          /\ op[j] = "rendering" => ENABLED RenderResolve(j)
          /\ op[j] = "mkdirp" => ENABLED MkdirpDone(j)
          /\ op[j] = "writing" => ENABLED WriteDone(j))

\* one page's render has not settled while another page's file is written
C19_Witness ==
  /\ pc = "awaitPages"
  /\ N = 2
  /\ op[1] = "rendering"
  /\ op[2] = "done"

----------------------------------------------------------------------------
(* C20 *)

\* C20 as stated: once the build has failed, no page file is created or
\* written any more.
C20_Original == [][pc = "failed" => htmlFiles' = htmlFiles]_vars

\* the renderPage calls that are still in flight
InFlight == {i \in DOMAIN op : op[i] \in {"rendering", "mkdirp", "writing"}}

\* C20, amended: a failure is final and starts nothing new, and it cancels
\* nothing.  Once the build has failed it stays failed, no renderPage call is
\* started (the synthetic 404 page is not rendered), and the only changes to
\* the output directory are those of renderPage calls that were in flight
\* when the build failed: each may still create its directories and write
\* (or partly write) its own file.
C20_FailureCancelsNothing ==
  [][pc = "failed" =>
       /\ pc' = "failed"
       /\ calls' = calls
       /\ InFlight' \subseteq InFlight
       /\ (htmlFiles' # htmlFiles \/ dirs' # dirs) =>
            \E i \in InFlight :
              /\ op'[i] # op[i]
              /\ dirs' \in {dirs, dirs \cup MkdirpSet(Dirname(Filename(PagePath(i))))}
              /\ \A f \in DOMAIN htmlFiles' :
                   \/ f \in DOMAIN htmlFiles /\ htmlFiles'[f] = htmlFiles[f]
                   \/ f = Filename(PagePath(i)) /\ htmlFiles'[f] \in WritesOf(PagePath(i))
       /\ DOMAIN htmlFiles \subseteq DOMAIN htmlFiles']_vars

\* the build has failed on one page's fatal error and another page's file
\* has been written all the same
C20_Witness ==
  /\ pc = "failed"
  /\ N = 2
  /\ op[1] = "rejected"
  /\ op[2] = "done"
  /\ Filename(PagePath(2)) \in DOMAIN htmlFiles
  /\ errorLog = {}

====
